---- MODULE Spec2Model ----
(***************************************************************************)
(* Model of gow's runtime coordination engine (gow_main.go): the main      *)
(* task running Init / Run / CmdRun / Terminate / Deinit / Exit, the       *)
(* signal relay goroutine (SigRun) and the watcher goroutine (WatchRun,    *)
(* calling OnFsEvent), communicating over ChanSignals (capacity 1) and     *)
(* the unbuffered ChanRestart / ChanKill with non-blocking sends.          *)
(***************************************************************************)
EXTENDS Integers, Sequences, FiniteSets, TLC

\* ---------------------------------------------------------------- bounds
MaxTime == 3
MaxDebounce == 2
MaxEvents == 2
MaxSignals == 2

\* ------------------------------------------------------------- constants
None == "none"

\* The kill signals the program handles (KILL_SIGS).
KILL_SIGS == {"SIGHUP", "SIGINT", "SIGQUIT", "SIGTERM"}

\* Values that can arrive on ChanSignals: the kill signals and one other.
Signals == KILL_SIGS \cup {"SIGUSR1"}

\* A change event is nil or carries a path.
NilEvent == "nil"
Paths == {"a.go", "b.txt"}
Events == {NilEvent} \cup Paths

\* self.ChanSignals.InitCap(1)
ChanSignalsCap == 1

VARIABLES
    opt,          \* Main.Opt: [Lazy, Postpone, Debounce], fixed after parse
    now,          \* the clock read by time.Now()
    lastRestart,  \* Main.lastRestart
    mpc,          \* position of the main task (main / Run / CmdRun / Terminate)
    dstep,        \* position inside Deinit (1..5), 0 outside
    spc,          \* position of the SigRun goroutine
    sigVal,       \* the value SigRun took from ChanSignals
    chanSignals,  \* buffered content of Main.ChanSignals
    wpc,          \* position of the watcher goroutine inside OnFsEvent
    event,        \* the event OnFsEvent was last called with
    res,          \* acquired resources: stdio, term, watcher, sigchan, subscribed, cmd
    nLive,        \* number of live child processes
    killSig,      \* signal received by CmdRun from ChanKill
    bcastSig,     \* signal passed to Cmd.Broadcast by Terminate
    raised,       \* signal re-raised against the own process
    effects,      \* side effects of Terminate / Deinit, in order
    nEvents,      \* change events handed to OnFsEvent
    nAdmitted,    \* events for which ShouldRestart returned true
    nBoot,        \* Cmd.Restart() calls of the bootstrap run
    nChange,      \* Cmd.Restart() calls of the restart branch of CmdRun
    nSignals,     \* signals delivered by the OS
    istep,        \* position inside Main.Init (index into InitSeq)
    panicked,     \* a panic is unwinding main (recovered by Main.Exit)
    offMain       \* <<task, operation>>: accesses to lastRestart and Cmd
                  \* made by a task other than the main task

vars == <<opt, now, lastRestart, mpc, dstep, spc, sigVal, chanSignals, wpc,
          event, res, nLive, killSig, bcastSig, raised, effects, nEvents,
          nAdmitted, nBoot, nChange, nSignals, istep, panicked, offMain>>

sigVars == <<spc, sigVal, chanSignals, nSignals>>
watchVars == <<wpc, event, nEvents, nAdmitted, offMain>>
initVars == <<istep, panicked>>
termVars == <<killSig, bcastSig, raised, effects, res, dstep>>
cmdVars == <<nLive, nBoot, nChange>>

\* ------------------------------------------------------------- helpers
NoRes == [stdio |-> FALSE, term |-> FALSE, watcher |-> FALSE,
          sigchan |-> FALSE, subscribed |-> FALSE, cmd |-> FALSE]

AllRes == [stdio |-> TRUE, term |-> TRUE, watcher |-> TRUE,
           sigchan |-> TRUE, subscribed |-> TRUE, cmd |-> TRUE]

\* The process is gone after os.Exit or after dying from a signal.
Alive == mpc \notin {"exited", "killed"}

\* Opt.AllowPath: the configured path predicate.
AllowPath(p) == p = "a.go"

\* Cmd.IsRunning
IsRunning == nLive > 0

\* Opt.Debounce.Allow(t): enough time has passed since t.
DebounceAllow(t) == now - t >= opt.Debounce

\* Variant: the membership test is missing.
IsKillSig_any(s) == TRUE

\* gg.Has(KILL_SIGS, sig)
IsKillSig(s) == s \in KILL_SIGS

\* Variant: the debounce check is missing.
ShouldRestart_noDebounce(ev) ==
    /\ ev # NilEvent
    /\ ~(opt.Lazy /\ IsRunning)
    /\ AllowPath(ev)

\* Main.ShouldRestart
ShouldRestart(ev) ==
    /\ ev # NilEvent
    /\ ~(opt.Lazy /\ IsRunning)
    /\ AllowPath(ev)
    /\ DebounceAllow(lastRestart)

\* ChanRestart and ChanKill are unbuffered (Init without capacity): a
\* non-blocking send succeeds only while CmdRun is blocked in its select.
Receiving == mpc = "select"

\* Variant: the bootstrap run ignores Opt.Postpone.
Bootstrap_always == TRUE

\* CmdRun's bootstrap condition.
Bootstrap == ~opt.Postpone

\* Variant: the kill branch does not return and the loop selects again.
AfterTerminate_loop == "select"

\* Where the main task continues after Terminate: CmdRun returns, Run
\* returns, main returns and the deferred Deinit runs.
AfterTerminate == "deferred_deinit"

\* Variant: the process handle is released before signals are unsubscribed
\* and the watcher cancelled.
DeinitSeq_cmdFirst == <<"stdio", "term", "cmd", "watch", "sig">>

\* The calls of Main.Deinit, in order.
DeinitSeq == <<"stdio", "term", "watch", "sig", "cmd">>

\* ----------------------------------------------------------------- Init
Init ==
    /\ opt \in [Lazy : BOOLEAN, Postpone : BOOLEAN, Debounce : 1..MaxDebounce]
    /\ now = 0
    /\ lastRestart = 0
    /\ mpc = "init"
    /\ dstep = 0
    /\ spc = "off"
    /\ sigVal = None
    /\ chanSignals = <<>>
    /\ wpc = "off"
    /\ event = NilEvent
    /\ res = NoRes
    /\ nLive = 0
    /\ killSig = None
    /\ bcastSig = None
    /\ raised = None
    /\ effects = <<>>
    /\ nEvents = 0
    /\ nAdmitted = 0
    /\ nBoot = 0
    /\ nChange = 0
    /\ nSignals = 0
    /\ istep = 1
    /\ panicked = FALSE
    /\ offMain = {}

\* ------------------------------------------------------------ main task
\* The steps of Main.Init, in order: Opt.Init, ChanRestart.Init and
\* ChanKill.Init, Cmd.Init, SigInit, WatchInit, TermState.Init, Stdio.Init,
\* and the debounce baseline.
InitSeq == <<"opt", "chans", "cmd", "sig", "watch", "term", "stdio", "last">>

\* The steps of Main.Init that can fail (panic).
PanicSteps == {"opt", "cmd", "sig", "watch", "term", "stdio"}

\* The resources held once the first k steps of Main.Init are done.
Acquired(k) ==
    [stdio |-> k >= 7, term |-> k >= 6, watcher |-> k >= 5,
     sigchan |-> k >= 4, subscribed |-> k >= 4, cmd |-> k >= 3]

\* Variant: main defers Exit only, so a panic or return goes straight to it.
OnUnwind_exitOnly == "exit"

\* main's deferred calls run in reverse order when main returns or panics:
\* Deinit first, then Exit.
OnUnwind == "deferred_deinit"

\* Main.Init, one step.
MainInit ==
    /\ mpc = "init"
    /\ istep \in 1..Len(InitSeq)
    /\ res' = Acquired(istep)
    /\ istep' = istep + 1
    /\ IF InitSeq[istep] = "last"
         THEN /\ lastRestart' = now
              /\ mpc' = "run"
         ELSE UNCHANGED <<lastRestart, mpc>>
    /\ UNCHANGED <<opt, panicked, now, dstep, sigVars, watchVars, cmdVars,
                   killSig, bcastSig, raised, effects>>

\* A step of Main.Init panics: main unwinds into its deferred calls.
InitPanic ==
    /\ mpc = "init"
    /\ istep \in 1..Len(InitSeq)
    /\ InitSeq[istep] \in PanicSteps
    /\ panicked' = TRUE
    /\ mpc' = OnUnwind
    /\ dstep' = IF OnUnwind = "deferred_deinit" THEN 1 ELSE 0
    /\ UNCHANGED <<opt, istep, now, lastRestart, sigVars, watchVars, cmdVars,
                   killSig, bcastSig, raised, effects, res>>

\* Main.Run: start the goroutines, then enter CmdRun.
MainRun ==
    /\ mpc = "run"
    /\ spc' = "recv"
    /\ wpc' = IF res.watcher THEN "idle" ELSE "off"
    /\ mpc' = "cmdrun"
    /\ UNCHANGED <<opt, initVars, now, lastRestart, dstep, sigVal, chanSignals,
                   nSignals, event, nEvents, nAdmitted, offMain, res,
                   cmdVars, killSig, bcastSig, raised, effects>>

\* Variant: the bootstrap run also records the restart time.
CmdRunBoot_stamps ==
    /\ mpc = "cmdrun"
    /\ IF Bootstrap
         THEN /\ mpc' = "in_restart"
              /\ nBoot' = nBoot + 1
              /\ nLive' = 0
              /\ lastRestart' = now
         ELSE /\ mpc' = "select"
              /\ UNCHANGED <<nBoot, nLive, lastRestart>>
    /\ UNCHANGED <<opt, initVars, now, sigVars, watchVars, termVars, nChange>>

\* CmdRun, before the loop: the bootstrap run unless postponed.  Entering
\* Cmd.Restart stops the previous child.
CmdRunBoot ==
    /\ mpc = "cmdrun"
    /\ IF Bootstrap
         THEN /\ mpc' = "in_restart"
              /\ nBoot' = nBoot + 1
              /\ nLive' = 0
         ELSE /\ mpc' = "select"
              /\ UNCHANGED <<nBoot, nLive>>
    /\ UNCHANGED <<opt, initVars, now, lastRestart, sigVars, watchVars, termVars,
                   nChange>>

\* Cmd.Restart, second half: the new child is started and the call returns
\* to the loop, which blocks in select.
CmdRestartFinish ==
    /\ mpc = "in_restart"
    /\ nLive' = nLive + 1
    /\ mpc' = "select"
    /\ UNCHANGED <<opt, initVars, now, lastRestart, sigVars, watchVars, termVars,
                   nBoot, nChange>>

\* Cmd.Restart panics: CmdRun and Run unwind into main's deferred calls.
CmdRestartPanic ==
    /\ mpc = "in_restart"
    /\ panicked' = TRUE
    /\ mpc' = OnUnwind
    /\ dstep' = IF OnUnwind = "deferred_deinit" THEN 1 ELSE 0
    /\ UNCHANGED <<opt, istep, now, lastRestart, sigVars, watchVars, cmdVars,
                   killSig, bcastSig, raised, effects, res>>

\* CmdRun, restart branch: record the time and call Cmd.Restart.
CmdRunRestart ==
    /\ mpc = "on_restart"
    /\ lastRestart' = now
    /\ nChange' = nChange + 1
    /\ nLive' = 0
    /\ mpc' = "in_restart"
    /\ UNCHANGED <<opt, initVars, now, sigVars, watchVars, termVars, nBoot>>

\* Terminate, step 1: Cmd.Broadcast(sig).
TerminateBroadcast ==
    /\ mpc = "on_kill"
    /\ bcastSig' = killSig
    /\ effects' = Append(effects, "broadcast")
    /\ mpc' = "terminate_deinit"
    /\ dstep' = 1
    /\ UNCHANGED <<opt, initVars, now, lastRestart, sigVars, watchVars, cmdVars,
                   killSig, raised, res>>

\* Stdio.Deinit
StdioDeinit ==
    IF res.stdio
      THEN /\ res' = [res EXCEPT !.stdio = FALSE]
           /\ effects' = Append(effects, "stdio")
           /\ UNCHANGED nLive
      ELSE UNCHANGED <<res, effects, nLive>>

\* TermState.Deinit
TermStateDeinit ==
    IF res.term
      THEN /\ res' = [res EXCEPT !.term = FALSE]
           /\ effects' = Append(effects, "term")
           /\ UNCHANGED nLive
      ELSE UNCHANGED <<res, effects, nLive>>

\* Variant: the nil check is missing and the watcher is deinitialized on
\* every call.
WatchDeinit_unguarded ==
    /\ res' = [res EXCEPT !.watcher = FALSE]
    /\ effects' = Append(effects, "watch")
    /\ UNCHANGED nLive

\* Main.WatchDeinit
WatchDeinit ==
    IF res.watcher
      THEN /\ res' = [res EXCEPT !.watcher = FALSE]
           /\ effects' = Append(effects, "watch")
           /\ UNCHANGED nLive
      ELSE UNCHANGED <<res, effects, nLive>>

\* Variant: the nil check is missing and signal.Stop is called on whatever
\* the channel is.
SigDeinit_unguarded ==
    /\ res' = [res EXCEPT !.subscribed = FALSE]
    /\ effects' = Append(effects, "sig")
    /\ UNCHANGED nLive

\* Main.SigDeinit: signal.Stop unless the channel is nil; stopping a
\* channel that is not subscribed changes nothing.
SigDeinit ==
    IF res.sigchan /\ res.subscribed
      THEN /\ res' = [res EXCEPT !.subscribed = FALSE]
           /\ effects' = Append(effects, "sig")
           /\ UNCHANGED nLive
      ELSE UNCHANGED <<res, effects, nLive>>

\* Cmd.Deinit: stop the child and drop the handle.
CmdDeinit ==
    IF res.cmd
      THEN /\ res' = [res EXCEPT !.cmd = FALSE]
           /\ effects' = Append(effects, "cmd")
           /\ nLive' = 0
      ELSE UNCHANGED <<res, effects, nLive>>

\* One call of Main.Deinit, reached from Terminate or from main's defer.
DeinitStep ==
    /\ mpc \in {"terminate_deinit", "deferred_deinit"}
    /\ dstep \in 1..Len(DeinitSeq)
    /\ CASE DeinitSeq[dstep] = "stdio" -> StdioDeinit
         [] DeinitSeq[dstep] = "term" -> TermStateDeinit
         [] DeinitSeq[dstep] = "watch" -> WatchDeinit
         [] DeinitSeq[dstep] = "sig" -> SigDeinit
         [] DeinitSeq[dstep] = "cmd" -> CmdDeinit
    /\ IF dstep < Len(DeinitSeq)
         THEN /\ dstep' = dstep + 1
              /\ mpc' = mpc
         ELSE /\ dstep' = 0
              /\ mpc' = IF mpc = "terminate_deinit" THEN "reraise" ELSE "exit"
    /\ UNCHANGED <<opt, initVars, now, lastRestart, sigVars, watchVars, nBoot, nChange,
                   killSig, bcastSig, raised>>

\* Terminate, step 3: syscall.Kill(os.Getpid(), sig); then CmdRun returns.
TerminateReraise ==
    /\ mpc = "reraise"
    /\ raised' = killSig
    /\ effects' = Append(effects, "raise")
    /\ mpc' = AfterTerminate
    /\ dstep' = IF AfterTerminate = "deferred_deinit" THEN 1 ELSE 0
    /\ UNCHANGED <<opt, initVars, now, lastRestart, sigVars, watchVars, cmdVars,
                   killSig, bcastSig, res>>

\* Main.Exit: os.Exit.
MainExit ==
    /\ mpc = "exit"
    /\ mpc' = "exited"
    /\ UNCHANGED <<opt, initVars, now, lastRestart, sigVars, watchVars, cmdVars,
                   termVars>>

\* The re-raised signal reaches the process with its default handling.
ProcDie ==
    /\ Alive
    /\ raised # None
    /\ ~res.subscribed
    /\ mpc' = "killed"
    /\ UNCHANGED <<opt, initVars, now, lastRestart, sigVars, watchVars, cmdVars,
                   termVars>>

\* ---------------------------------------------------------- signal relay
\* The OS delivers a signal to the subscribed channel; a full channel
\* drops it.
EnvSignal(s) ==
    /\ Alive
    /\ res.subscribed
    /\ nSignals < MaxSignals
    /\ nSignals' = nSignals + 1
    /\ chanSignals' = IF Len(chanSignals) < ChanSignalsCap
                        THEN Append(chanSignals, s)
                        ELSE chanSignals
    /\ UNCHANGED <<opt, initVars, now, lastRestart, mpc, spc, sigVal, watchVars,
                   cmdVars, termVars>>

\* SigRun: take the next value from ChanSignals.
SigRecv ==
    /\ Alive
    /\ spc = "recv"
    /\ chanSignals # <<>>
    /\ sigVal' = Head(chanSignals)
    /\ chanSignals' = Tail(chanSignals)
    /\ spc' = "handle"
    /\ UNCHANGED <<opt, initVars, now, lastRestart, mpc, nSignals, watchVars, cmdVars,
                   termVars>>

\* SigRun, loop body: a kill signal is passed to Kill, whose non-blocking
\* send reaches CmdRun only while it is blocked in select.
SigHandle ==
    /\ Alive
    /\ spc = "handle"
    /\ spc' = "recv"
    /\ IF IsKillSig(sigVal) /\ Receiving
         THEN /\ killSig' = sigVal
              /\ mpc' = "on_kill"
         ELSE UNCHANGED <<killSig, mpc>>
    /\ UNCHANGED <<opt, initVars, now, lastRestart, sigVal, chanSignals, nSignals,
                   watchVars, cmdVars, bcastSig, raised, effects, res, dstep>>

\* -------------------------------------------------------------- watcher
\* What ShouldRestart(ev) touches, given the short-circuit evaluation of
\* its conjunction: Cmd.IsRunning only in lazy mode, lastRestart only when
\* the first three conditions hold.
WatcherAccess(ev) ==
    (IF ev # NilEvent /\ opt.Lazy
       THEN {<<"watcher", "Cmd.IsRunning">>} ELSE {})
    \cup
    (IF ev # NilEvent /\ ~(opt.Lazy /\ IsRunning) /\ AllowPath(ev)
       THEN {<<"watcher", "lastRestart">>} ELSE {})

\* Variant: the early return is missing, so Restart is called for every
\* event.
OnFsEvent_noReturn(ev) ==
    /\ Alive
    /\ wpc = "idle"
    /\ res.watcher
    /\ nEvents < MaxEvents
    /\ nEvents' = nEvents + 1
    /\ event' = ev
    /\ offMain' = offMain \cup WatcherAccess(ev)
    /\ wpc' = "send"
    /\ nAdmitted' = IF ShouldRestart(ev) THEN nAdmitted + 1 ELSE nAdmitted
    /\ UNCHANGED <<opt, initVars, now, lastRestart, mpc, sigVars, cmdVars,
                   termVars>>

\* The watcher calls OnFsEvent(ev): ShouldRestart decides.
OnFsEvent(ev) ==
    /\ Alive
    /\ wpc = "idle"
    /\ res.watcher
    /\ nEvents < MaxEvents
    /\ nEvents' = nEvents + 1
    /\ event' = ev
    /\ offMain' = offMain \cup WatcherAccess(ev)
    /\ IF ShouldRestart(ev)
         THEN /\ wpc' = "send"
              /\ nAdmitted' = nAdmitted + 1
         ELSE /\ wpc' = "idle"
              /\ UNCHANGED nAdmitted
    /\ UNCHANGED <<opt, initVars, now, lastRestart, mpc, sigVars, cmdVars, termVars>>

\* Variant: the send on ChanRestart is a plain send, which waits until
\* CmdRun receives.
Restart_blocking ==
    /\ Alive
    /\ wpc = "send"
    /\ Receiving
    /\ wpc' = "idle"
    /\ mpc' = "on_restart"
    /\ UNCHANGED <<opt, initVars, now, lastRestart, sigVars, event, nEvents,
                   nAdmitted, offMain, cmdVars, termVars>>

\* Variant: the watcher goroutine calls Cmd.Restart itself instead of
\* sending on ChanRestart.
Restart_direct ==
    /\ Alive
    /\ wpc = "send"
    /\ wpc' = "idle"
    /\ nChange' = nChange + 1
    /\ nLive' = 1
    /\ offMain' = offMain \cup {<<"watcher", "Cmd.Restart">>}
    /\ UNCHANGED <<opt, initVars, now, lastRestart, mpc, sigVars, event,
                   nEvents, nAdmitted, nBoot, termVars>>

\* Main.Restart: the non-blocking send on ChanRestart.
Restart ==
    /\ Alive
    /\ wpc = "send"
    /\ wpc' = "idle"
    /\ mpc' = IF Receiving THEN "on_restart" ELSE mpc
    /\ UNCHANGED <<opt, initVars, now, lastRestart, sigVars, event, nEvents,
                   nAdmitted, offMain, cmdVars, termVars>>

\* ---------------------------------------------------------- environment
Tick ==
    /\ Alive
    /\ now < MaxTime
    /\ now' = now + 1
    /\ UNCHANGED <<opt, initVars, lastRestart, mpc, sigVars, watchVars, cmdVars,
                   termVars>>

\* The child exits on its own.
ChildExit ==
    /\ Alive
    /\ nLive > 0
    /\ nLive' = nLive - 1
    /\ UNCHANGED <<opt, initVars, now, lastRestart, mpc, sigVars, watchVars, termVars,
                   nBoot, nChange>>

Next ==
    \/ MainInit
    \/ InitPanic
    \/ MainRun
    \/ CmdRunBoot
    \/ CmdRestartFinish
    \/ CmdRestartPanic
    \/ CmdRunRestart
    \/ TerminateBroadcast
    \/ DeinitStep
    \/ TerminateReraise
    \/ MainExit
    \/ ProcDie
    \/ \E s \in Signals : EnvSignal(s)
    \/ SigRecv
    \/ SigHandle
    \/ \E ev \in Events : OnFsEvent(ev)
    \/ Restart
    \/ Tick
    \/ ChildExit

Spec == Init /\ [][Next]_vars

TypeOK ==
    /\ now \in 0..MaxTime
    /\ lastRestart \in 0..MaxTime
    /\ nLive \in 0..1
    /\ Len(chanSignals) <= ChanSignalsCap

\* The steps of the main task.
MainTask ==
    \/ MainInit
    \/ InitPanic
    \/ MainRun
    \/ CmdRunBoot
    \/ CmdRestartFinish
    \/ CmdRestartPanic
    \/ CmdRunRestart
    \/ TerminateBroadcast
    \/ DeinitStep
    \/ TerminateReraise
    \/ MainExit

\* The steps of the SigRun goroutine.
SigTask == SigRecv \/ SigHandle

\* Every task of the program keeps running while it can take a step; the
\* environment (signals, change events, the clock, the child) need not act.
FairSpec ==
    /\ Spec
    /\ WF_vars(MainTask)
    /\ WF_vars(SigTask)
    /\ WF_vars(Restart)

\* ------------------------------------------------------------------ C1
\* Every resource Deinit releases has been released (the signal channel
\* itself stays allocated).
Released ==
    /\ ~res.stdio
    /\ ~res.term
    /\ ~res.watcher
    /\ ~res.subscribed
    /\ ~res.cmd

\* CmdRun ran Terminate to its end: broadcast, Deinit, and the loop returned.
Terminated ==
    /\ bcastSig # None
    /\ Released
    /\ mpc \in {"deferred_deinit", "exit", "exited", "killed"}

\* C1: every kill signal that SigRun takes from ChanSignals eventually leads
\* CmdRun to run the termination sequence (broadcast, Deinit, return).
C1_KillLeadsToTerminate ==
    (spc = "handle" /\ IsKillSig(sigVal)) ~> Terminated

\* ------------------------------------------------------------------ C2
\* CmdRun took the kill branch: Terminate has begun.
TerminateBegun == killSig # None

\* C2: once Terminate has begun, Cmd.Restart is never invoked again.
C2_NoRestartAfterTerminate ==
    [][TerminateBegun => (nBoot' = nBoot /\ nChange' = nChange)]_vars

\* Terminate has begun while an admitted request is still to be sent.
C2_Witness == TerminateBegun /\ wpc = "send" /\ nChange > 0

\* ------------------------------------------------------------------ C3
\* The four admission conditions, for event ev in the current state.
Qualifies(ev) ==
    /\ ev # NilEvent
    /\ ev = "a.go"
    /\ (~opt.Lazy \/ nLive = 0)
    /\ now - lastRestart >= opt.Debounce

\* A step in which OnFsEvent handles one event.
EventStep == nEvents' = nEvents + 1

\* C3: an event is admitted iff it qualifies, and every admitted event
\* results in a restart, so that once the watcher is idle and CmdRun waits
\* in select there are as many change-triggered restarts as qualifying
\* events.
C3_RestartIffQualifies ==
    /\ [][EventStep => (wpc' = "send" <=> Qualifies(event'))]_vars
    /\ []((wpc = "idle" /\ mpc = "select") => nChange = nAdmitted)

\* ------------------------------------------------------------------ C4
\* C4: two consecutive change-triggered restarts are at least the debounce
\* duration apart (lastRestart holds the time of the previous one).
C4_DebounceGap ==
    [][(mpc = "on_restart" /\ mpc' = "in_restart" /\ nChange > 0)
         => now - lastRestart >= opt.Debounce]_vars

\* ------------------------------------------------------------------ C5
\* C5: in lazy mode a change-triggered Cmd.Restart never happens while the
\* child is running.
C5_LazyNeverReplacesRunning ==
    [][(opt.Lazy /\ mpc = "on_restart" /\ mpc' = "in_restart")
         => nLive = 0]_vars

\* ------------------------------------------------------------------ C6
\* C6: at most one child process is active at any time.
C6_AtMostOneChild == nLive <= 1

\* A child started by a change-triggered restart after the bootstrap child.
C6_Witness == nBoot = 1 /\ nChange > 0 /\ nLive = 1 /\ mpc = "select"

\* ------------------------------------------------------------------ C7
\* C7: with postpone, there is no bootstrap run and no restart before an
\* event was admitted; without postpone, exactly one bootstrap run precedes
\* any change-triggered restart.
C7_Postpone ==
    /\ opt.Postpone => (nBoot = 0 /\ (nChange > 0 => nAdmitted > 0))
    /\ ~opt.Postpone => (nBoot <= 1 /\ (nChange > 0 => nBoot = 1))
    /\ mpc \in {"init", "run", "cmdrun"} => nBoot + nChange = 0

\* Postponed, and the first restart came from a change event.
C7_Witness == opt.Postpone /\ nChange > 0

\* ------------------------------------------------------------------ C8
\* C8: handling a signal outside KILL_SIGS changes nothing but the position
\* of SigRun, which goes on to the next signal.
C8_UnknownSignalNoEffect ==
    [][(spc = "handle" /\ sigVal \notin KILL_SIGS /\ spc' = "recv")
         => UNCHANGED <<opt, initVars, now, lastRestart, mpc, dstep, sigVal,
                        chanSignals, watchVars, cmdVars, killSig, bcastSig,
                        raised, effects, res, nSignals>>]_vars

\* An unknown signal was handled while CmdRun waited in select, and SigRun
\* is back at its receive.
C8_Witness ==
    /\ sigVal \notin KILL_SIGS
    /\ sigVal # None
    /\ spc = "recv"
    /\ mpc = "select"

\* ------------------------------------------------------------------ C9
\* C9: the calls of the deferred Deinit, run after Terminate's Deinit, have
\* no effect: no resource changes and no side effect is added.
C9_DeinitIdempotent ==
    [][(mpc = "deferred_deinit" /\ TerminateBegun /\ dstep' # dstep)
         => UNCHANGED <<res, effects, nLive, opt, now, lastRestart, sigVars,
                        watchVars, nBoot, nChange, killSig, bcastSig,
                        raised>>]_vars

\* The deferred Deinit has completed after Terminate's Deinit.
C9_Witness == mpc = "exit" /\ TerminateBegun /\ Released

\* ----------------------------------------------------------------- C10
\* The side effects of the termination sequence, in the documented order.
TerminateOrder ==
    <<"broadcast", "stdio", "term", "watch", "sig", "cmd", "raise">>

\* C10: once CmdRun took the kill branch, the effects of Terminate occur in
\* the documented order and none occurs before; the signal
\* re-raised is the one received and broadcast, and it is re-raised only
\* after signals were unsubscribed.
C10_TerminateOrder ==
    /\ TerminateBegun =>
         /\ Len(effects) <= Len(TerminateOrder)
         /\ effects = SubSeq(TerminateOrder, 1, Len(effects))
    /\ ~TerminateBegun => (bcastSig = None /\ raised = None)
    /\ raised # None =>
         (~res.subscribed /\ ~res.cmd /\ raised = killSig /\ raised = bcastSig)
    /\ bcastSig # None => bcastSig = killSig

\* The whole sequence has run.
C10_Witness == raised # None /\ effects = TerminateOrder

\* ----------------------------------------------------------------- C11
\* C11: os.Exit is reached only after Deinit released everything: the
\* terminal override, the watcher, the signal subscription and the child.
C11_DeinitBeforeExit ==
    mpc \in {"exit", "exited"} => (Released /\ nLive = 0)

\* The process exited after a panic inside Run (in Cmd.Restart).
C11_Witness == mpc = "exited" /\ panicked /\ nBoot = 1 /\ istep > Len(InitSeq)

\* ----------------------------------------------------------------- C12
\* C12: lastRestart is read and written on the main task only.
C12_LastRestartMainOnly == \A a \in offMain : a[2] # "lastRestart"

\* ----------------------------------------------------------------- C13
\* The methods of Cmd that change the child slot.
CmdMutators == {"Cmd.Restart", "Cmd.Broadcast", "Cmd.Deinit"}

C14_RequestNotLost ==
    \A k \in 0..MaxEvents :
        (wpc = "send" /\ nChange = k)
            ~> (nChange > k \/ TerminateBegun \/ panicked)

\* ----------------------------------------------------------------- C15
\* Main.Init panicked before completing.
InitPanicked == panicked /\ istep <= Len(InitSeq)

\* The number of steps Main.Init must have completed for a Deinit effect to
\* have something to release.
NeedStep(e) ==
    CASE e = "cmd" -> 3
      [] e = "sig" -> 4
      [] e = "watch" -> 5
      [] e = "term" -> 6
      [] e = "stdio" -> 7
      [] OTHER -> 0

\* C15: after a panic in Init the deferred Deinit can always take its next
\* step, releases only what Init had acquired, and leaves nothing acquired.
C15_DeinitAfterPartialInit ==
    InitPanicked =>
        /\ \A i \in 1..Len(effects) :
               /\ NeedStep(effects[i]) > 0
               /\ istep - 1 >= NeedStep(effects[i])
        /\ mpc = "deferred_deinit" => ENABLED DeinitStep
        /\ mpc \in {"exit", "exited"} =>
               /\ Released
               /\ Len(effects) =
                    Cardinality({e \in {"cmd", "sig", "watch", "term", "stdio"} :
                                   istep - 1 >= NeedStep(e)})

\* SigInit panicked: Cmd was initialized, the signal channel and the
\* watcher were not, and the deferred Deinit has completed.
C15_Witness ==
    /\ InitPanicked
    /\ InitSeq[istep] = "sig"
    /\ mpc = "exit"
    /\ effects = <<"cmd">>

\* ----------------------------------------------------------------- C16
\* C16: Terminate runs at most once and only for a kill signal received
\* from ChanKill, and CmdRun returns only after Terminate ran.
C16_TerminateOnce ==
    /\ Cardinality({i \in 1..Len(effects) : effects[i] = "broadcast"}) <= 1
    /\ Cardinality({i \in 1..Len(effects) : effects[i] = "raise"}) <= 1
    /\ bcastSig # None => (killSig \in KILL_SIGS /\ nSignals > 0)
    /\ (mpc \in {"deferred_deinit", "exit", "exited"} /\ ~panicked)
         => (TerminateBegun /\ raised # None)

\* CmdRun returned after a kill although change-triggered restarts happened
\* before and a second signal was delivered.
C16_Witness ==
    /\ mpc = "exit"
    /\ ~panicked
    /\ nChange > 0
    /\ nSignals = 2

\* ----------------------------------------------------------------- C17
\* C17: lastRestart changes only in Init and in the restart branch of
\* CmdRun; a rejected event changes neither lastRestart, the main task nor
\* the child; the bootstrap run leaves lastRestart alone.
C17_LastRestartFrame ==
    [][/\ lastRestart' # lastRestart => mpc \in {"init", "on_restart"}
       /\ (EventStep /\ wpc' = "idle")
            => UNCHANGED <<lastRestart, mpc, nLive, nBoot, nChange>>
       /\ nBoot' # nBoot => lastRestart' = lastRestart]_vars

\* After the bootstrap run, some time after Init, an event was rejected and
\* lastRestart is still the Init time.
C17_Witness ==
    /\ nBoot = 1
    /\ nChange = 0
    /\ nEvents > nAdmitted
    /\ lastRestart < now
    /\ mpc = "select"

\* ----------------------------------------------------------------- C18
\* C18: Restart() and Kill() can always complete, whatever the main task is
\* doing.
C18_SendNeverBlocks ==
    /\ (Alive /\ wpc = "send") => ENABLED Restart
    /\ (Alive /\ spc = "handle") => ENABLED SigHandle

\* Both producers are about to send while CmdRun is inside Cmd.Restart.
C18_Witness == wpc = "send" /\ spc = "handle" /\ mpc = "in_restart"

\* ----------------------------------------------------------------- C19
\* C19: there are never more Cmd.Restart calls than admitted events plus
\* the one bootstrap run (none with postpone).
C19_NoSpuriousRestart ==
    /\ nChange <= nAdmitted
    /\ nBoot <= 1
    /\ nBoot + nChange <= nAdmitted + (IF opt.Postpone THEN 0 ELSE 1)

\* Every admitted event led to a restart, after the bootstrap run.
C19_Witness == nBoot = 1 /\ nChange = 2 /\ nAdmitted = 2

====
